---- MODULE Spec2Model ----
(***************************************************************************)
(* Model of app/Collector.py: the Training Tracker API.                    *)
(*                                                                         *)
(* ExerciseFactory is modelled as operators over Python values, the four   *)
(* Flask routes as actions over the exercises table, the request being     *)
(* served and the response it got.                                         *)
(*                                                                         *)
(* Numbers are kept in tenths (the rates 0.5 and 0.6 are 5 and 6 tenths),  *)
(* with the Python type (int or float) kept beside the magnitude; the      *)
(* rounding of binary floating point is not modelled.                      *)
(***************************************************************************)
EXTENDS FiniteSets, Integers, Sequences, TLC

VARIABLES
    store,     \* the rows of the exercises table, in insertion order
    req,       \* the request being served (NoRequest between requests)
    resp,      \* the response its handler returned (NoResponse before it ran)
    produced   \* what create_exercise returned for each request answered 201

vars == <<store, req, resp, produced>>

(***************************************************************************)
(* Bounds of the model.                                                    *)
(***************************************************************************)
\* Rows the exercises table may hold before POST /add is no longer explored.
MaxStore == 3

(***************************************************************************)
(* Python values: JSON numbers, strings, null and lists, as request.json   *)
(* yields them.  n is the magnitude in tenths, s the text of a str.        *)
(***************************************************************************)
PyInt(i) == [ty |-> "int", n |-> 10 * i, s |-> ""]

PyFloat(tenths) == [ty |-> "float", n |-> tenths, s |-> ""]

PyStr(text) == [ty |-> "str", n |-> 0, s |-> text]

None == [ty |-> "NoneType", n |-> 0, s |-> ""]

EmptyList == [ty |-> "list", n |-> 0, s |-> ""]

IsNumber(v) == v.ty \in {"int", "float"}

IsSequence(v) == v.ty \in {"str", "list"}

\* Python's ==: 300 == 300.0 is True, values of unlike kinds are unequal.
PyEq(a, b) ==
    IF IsNumber(a) /\ IsNumber(b) THEN a.n = b.n ELSE a = b

\* The empty dict.
EmptyDict == [k \in {} |-> None]

(***************************************************************************)
(* Outcome of evaluating Python code: a value, or a raised exception with  *)
(* the words of its message.                                               *)
(***************************************************************************)
Return(v) == [exc |-> "", msg |-> <<>>, val |-> v]

Raise(cls, words) == [exc |-> cls, msg |-> words, val |-> None]

RECURSIVE Repeat(_, _)
\* "ab" * 3; a count of zero or less gives the empty string.
Repeat(text, count) ==
    IF count <= 0 THEN "" ELSE text \o Repeat(text, count - 1)

\* The * operator of lines 97, 99 and 100, on the values JSON can carry.
Mul(a, b) ==
    CASE IsNumber(a) /\ IsNumber(b) ->
            Return([ty |-> IF a.ty = "int" /\ b.ty = "int" THEN "int" ELSE "float",
                    n |-> (a.n * b.n) \div 10, s |-> ""])
      [] IsSequence(a) /\ b.ty = "int" ->
            Return([ty |-> a.ty, n |-> 0, s |-> Repeat(a.s, b.n \div 10)])
      [] a.ty = "int" /\ IsSequence(b) ->
            Return([ty |-> b.ty, n |-> 0, s |-> Repeat(b.s, a.n \div 10)])
      [] IsSequence(a) /\ b.ty # "int" ->
            Raise("TypeError", <<"can't", "multiply", "sequence", "by", "non-int",
                                 "of", "type", b.ty>>)
      [] IsSequence(b) /\ a.ty # "int" ->
            Raise("TypeError", <<"can't", "multiply", "sequence", "by", "non-int",
                                 "of", "type", a.ty>>)
      [] OTHER ->
            Raise("TypeError", <<"unsupported", "operand", "type(s)", "for", "*:",
                                 a.ty, "and", b.ty>>)

(***************************************************************************)
(* ExerciseFactory                                                         *)
(***************************************************************************)
CALORIE_BURN_RATE ==
    [sport \in {"running", "swimming", "cycling", "pullups", "pushups", "weights"} |->
        CASE sport = "running" -> PyInt(10)
          [] sport = "swimming" -> PyInt(12)
          [] sport = "cycling" -> PyInt(8)
          [] sport = "pullups" -> PyFloat(5)
          [] sport = "pushups" -> PyFloat(5)
          [] sport = "weights" -> PyFloat(6)]

\* data[key], raising KeyError when the key is absent.
GetItem(data, key) ==
    IF key \in DOMAIN data THEN Return(data[key]) ELSE Raise("KeyError", <<key>>)

\* The dict display {'k1': data['k1'], ...} of the validators' return.
Extract(data, keys) ==
    IF \E k \in keys : k \notin DOMAIN data
    THEN Raise("KeyError", <<CHOOSE k \in keys : k \notin DOMAIN data>>)
    ELSE Return([k \in keys |-> data[k]])

validate_running(data) ==
    IF "time" \notin DOMAIN data \/ "distance" \notin DOMAIN data
    THEN Raise("ValueError", <<"Running", "requires", "'time'", "and", "'distance'">>)
    ELSE Extract(data, {"time", "distance"})

validate_swimming(data) ==
    IF "time" \notin DOMAIN data \/ "distance" \notin DOMAIN data
    THEN Raise("ValueError", <<"Swimming", "requires", "'time'", "and", "'distance'">>)
    ELSE Extract(data, {"time", "distance"})

validate_pullups(data) ==
    IF "sets" \notin DOMAIN data \/ "reps_per_set" \notin DOMAIN data
    THEN Raise("ValueError", <<"Pull-ups", "require", "'sets'", "and", "'reps_per_set'">>)
    ELSE Extract(data, {"sets", "reps_per_set"})

validate_cycling(data) ==
    IF "time" \notin DOMAIN data \/ "distance" \notin DOMAIN data
    THEN Raise("ValueError", <<"Cycling", "requires", "'time'", "and", "'distance'">>)
    ELSE Extract(data, {"time", "distance"})

\* validate_pushups with the message copied from validate_pullups unchanged.
validate_pushups_copied_message(data) ==
    IF "sets" \notin DOMAIN data \/ "reps_per_set" \notin DOMAIN data
    THEN Raise("ValueError", <<"Pull-ups", "require", "'sets'", "and", "'reps_per_set'">>)
    ELSE Extract(data, {"sets", "reps_per_set"})


validate_pushups(data) ==
    IF "sets" \notin DOMAIN data \/ "reps_per_set" \notin DOMAIN data
    THEN Raise("ValueError", <<"Push-ups", "require", "'sets'", "and", "'reps_per_set'">>)
    ELSE Extract(data, {"sets", "reps_per_set"})

\* validate_weights with the test for 'exercise_type' left out.
validate_weights_type_unchecked(data) ==
    IF "sets" \notin DOMAIN data \/ "reps_per_set" \notin DOMAIN data
    THEN Raise("ValueError", <<"Weights", "require", "'exercise_type',", "'sets',",
                               "and", "'reps_per_set'">>)
    ELSE Extract(data, {"exercise_type", "sets", "reps_per_set"})


validate_weights(data) ==
    IF \/ "exercise_type" \notin DOMAIN data
       \/ "sets" \notin DOMAIN data
       \/ "reps_per_set" \notin DOMAIN data
    THEN Raise("ValueError", <<"Weights", "require", "'exercise_type',", "'sets',",
                               "and", "'reps_per_set'">>)
    ELSE Extract(data, {"exercise_type", "sets", "reps_per_set"})

\* validators[sport](data), the dispatch of lines 40-49.
validators(sport, data) ==
    CASE sport = "running" -> validate_running(data)
      [] sport = "swimming" -> validate_swimming(data)
      [] sport = "pullups" -> validate_pullups(data)
      [] sport = "cycling" -> validate_cycling(data)
      [] sport = "pushups" -> validate_pushups(data)
      [] sport = "weights" -> validate_weights(data)

\* calculate_calories with reps_per_set left out of total_reps.
calculate_calories_sets_only(sport, data) ==
    LET rate == CALORIE_BURN_RATE[sport] IN
    IF sport \in {"running", "swimming", "cycling"}
    THEN LET time == GetItem(data, "time") IN
         IF time.exc # "" THEN time ELSE Mul(time.val, rate)
    ELSE IF sport \in {"pullups", "pushups", "weights"}
    THEN LET sets == GetItem(data, "sets") IN
         IF sets.exc # "" THEN sets ELSE Mul(sets.val, rate)
    ELSE Return(PyInt(0))


calculate_calories(sport, data) ==
    LET rate == CALORIE_BURN_RATE[sport] IN
    IF sport \in {"running", "swimming", "cycling"}
    THEN LET time == GetItem(data, "time") IN
         IF time.exc # "" THEN time ELSE Mul(time.val, rate)
    ELSE IF sport \in {"pullups", "pushups", "weights"}
    THEN LET sets == GetItem(data, "sets")
             reps == GetItem(data, "reps_per_set") IN
         IF sets.exc # "" THEN sets
         ELSE IF reps.exc # "" THEN reps
         ELSE LET total_reps == Mul(sets.val, reps.val) IN
              IF total_reps.exc # "" THEN total_reps ELSE Mul(total_reps.val, rate)
    ELSE Return(PyInt(0))

\* create_exercise with a 'calories_burned' of the caller kept when there is one
\* (validated_data.setdefault in place of the assignment of line 50).
create_exercise_keeps_callers(sport, data) ==
    IF sport.ty = "list"
    THEN Raise("TypeError", <<"unhashable", "type:", "'list'">>)
    ELSE IF ~(sport.ty = "str" /\ sport.s \in DOMAIN CALORIE_BURN_RATE)
    THEN Raise("ValueError", <<"Unsupported", "sport", "type">>)
    ELSE LET validated_data == validators(sport.s, data) IN
         IF validated_data.exc # "" THEN validated_data
         ELSE LET calories == calculate_calories(sport.s, validated_data.val) IN
              IF calories.exc # "" THEN calories
              ELSE Return([k \in DOMAIN validated_data.val \cup {"calories_burned"} |->
                              IF k = "calories_burned"
                              THEN IF k \in DOMAIN data THEN data[k] ELSE calories.val
                              ELSE validated_data.val[k]])

\* sport is the Python value data.get('sport'); a list or dict cannot be
\* hashed, so the membership test of line 37 raises TypeError for it.
create_exercise(sport, data) ==
    IF sport.ty = "list"
    THEN Raise("TypeError", <<"unhashable", "type:", "'list'">>)
    ELSE IF ~(sport.ty = "str" /\ sport.s \in DOMAIN CALORIE_BURN_RATE)
    THEN Raise("ValueError", <<"Unsupported", "sport", "type">>)
    ELSE LET validated_data == validators(sport.s, data) IN
         IF validated_data.exc # "" THEN validated_data
         ELSE LET calories == calculate_calories(sport.s, validated_data.val) IN
              IF calories.exc # "" THEN calories
              ELSE Return([k \in DOMAIN validated_data.val \cup {"calories_burned"} |->
                              IF k = "calories_burned" THEN calories.val
                              ELSE validated_data.val[k]])

(***************************************************************************)
(* The exercises table (class Exercise) and its column types.              *)
(***************************************************************************)
\* json.dumps of one value of a db.JSON column: the JSON token written.
JsonDumps(v) ==
    CASE v.ty = "int" -> [j |-> "number", frac |-> FALSE, n |-> v.n, s |-> ""]
      [] v.ty = "float" -> [j |-> "number", frac |-> TRUE, n |-> v.n, s |-> ""]
      [] v.ty = "str" -> [j |-> "string", frac |-> FALSE, n |-> 0, s |-> v.s]
      [] v.ty = "NoneType" -> [j |-> "null", frac |-> FALSE, n |-> 0, s |-> ""]
      [] v.ty = "list" -> [j |-> "array", frac |-> FALSE, n |-> 0, s |-> ""]

\* json.loads of one token: a number without a fraction is an int.
JsonLoads(tok) ==
    CASE tok.j = "number" /\ ~tok.frac -> [ty |-> "int", n |-> tok.n, s |-> ""]
      [] tok.j = "number" /\ tok.frac -> [ty |-> "float", n |-> tok.n, s |-> ""]
      [] tok.j = "string" -> [ty |-> "str", n |-> 0, s |-> tok.s]
      [] tok.j = "null" -> None
      [] tok.j = "array" -> EmptyList

\* details = db.Column(db.JSON): the dict as written to and read from the column.
DetailsToColumn(details) == [k \in DOMAIN details |-> JsonDumps(details[k])]

DetailsFromColumn(column) == [k \in DOMAIN column |-> JsonLoads(column[k])]

\* calories_burned = db.Column(db.Float): a number is kept as a float; SQLite
\* keeps a value of another kind as it is given, when the commit accepts it.
FloatToColumn(v) ==
    IF IsNumber(v) THEN [ty |-> "float", n |-> v.n, s |-> ""] ELSE v

\* date = db.Column(db.Date, default=datetime.utcnow): the day of the insert.
utcnow == "utcnow"

\* exercise.date.strftime('%Y-%m-%d')
strftime(date) == date \o ":%Y-%m-%d"

\* NextId with the bug of giving every row the first id.
NextId_first(rows) == 1

\* id = db.Column(db.Integer, primary_key=True): one more than the largest id.
NextId(rows) ==
    IF rows = <<>> THEN 1
    ELSE 1 + (CHOOSE m \in {rows[i].id : i \in DOMAIN rows} :
                 \A i \in DOMAIN rows : rows[i].id <= m)

\* Exercise(sport=..., details=..., calories_burned=...) as the commit writes it.
Exercise(rows, sport, details, calories_burned) ==
    [id |-> NextId(rows),
     date |-> utcnow,
     sport |-> sport.s,
     details |-> DetailsToColumn(details),
     calories_burned |-> FloatToColumn(calories_burned)]

(***************************************************************************)
(* Requests and responses.                                                 *)
(***************************************************************************)
\* request.json: an object (a dict), or JSON of another kind (here an array).
JsonObject(obj) == [kind |-> "object", obj |-> obj]

JsonArray == [kind |-> "array", obj |-> EmptyDict]

Request(method, path, json) == [method |-> method, path |-> path, json |-> json]

NoRequest == Request("", "", JsonObject(EmptyDict))

\* jsonify(body), status
Response(status, body) == [status |-> status, body |-> body]

NoResponse == Response(0, EmptyDict)

\* data.get(key)
DictGet(data, key) == IF key \in DOMAIN data THEN data[key] ELSE None

\* No request is being served.
Idle == req.path = "" /\ resp.status = 0

\* The request in req awaits its handler.
Pending(method, path) == req.method = method /\ req.path = path /\ resp.status = 0

(***************************************************************************)
(* API routes.                                                             *)
(***************************************************************************)
home ==
    /\ Pending("GET", "/")
    /\ resp' = Response(200, [message |-> "Welcome to the Training Tracker API! Use /add to add data and /get to view records."])
    /\ UNCHANGED <<store, req, produced>>

\* The except clauses of lines 121-124, for an exception raised in the try block.
AddExcept(raised) ==
    IF raised.exc = "ValueError"
    THEN Response(400, [error |-> raised.msg])
    ELSE Response(500, [error |-> "An unexpected error occurred", details |-> raised.msg])

\* commit is the outcome of db.session.commit(): "ok", or "error" when the
\* database refuses or fails the insert.
add_exercise ==
    /\ Pending("POST", "/add")
    /\ \E commit \in {"ok", "error"} :
        LET data == req.json.obj
            sport == DictGet(data, "sport")
            exercise_data == create_exercise(sport, data)
        IN
        IF req.json.kind # "object"
        THEN /\ resp' = AddExcept(Raise("AttributeError",
                            <<"'list'", "object", "has", "no", "attribute", "'get'">>))
             /\ UNCHANGED <<store, req, produced>>
        ELSE IF exercise_data.exc # ""
        THEN /\ resp' = AddExcept(exercise_data)
             /\ UNCHANGED <<store, req, produced>>
        ELSE IF commit = "error"
        THEN /\ resp' = AddExcept(Raise("SQLAlchemyError", <<"commit", "failed">>))
             /\ UNCHANGED <<store, req, produced>>
        ELSE LET new_exercise == Exercise(store, sport, exercise_data.val,
                                          exercise_data.val["calories_burned"])
             IN
             /\ store' = Append(store, new_exercise)
             /\ produced' = Append(produced,
                    [sport |-> sport.s,
                     attributes |-> exercise_data.val,
                     caloriesBurned |-> exercise_data.val["calories_burned"]])
             /\ resp' = Response(201,
                    [message |-> "Exercise added successfully!",
                     exercise |-> DetailsFromColumn(new_exercise.details),
                     calories_burned |-> new_exercise.calories_burned])
             /\ UNCHANGED req

\* The list comprehension of lines 130-138 over the rows Exercise.query.all() returns.
ExerciseList(rows) ==
    [i \in DOMAIN rows |->
        [id |-> rows[i].id,
         date |-> strftime(rows[i].date),
         sport |-> rows[i].sport,
         details |-> DetailsFromColumn(rows[i].details),
         calories_burned |-> rows[i].calories_burned]]

\* query is the outcome of Exercise.query.all().
get_exercises ==
    /\ Pending("GET", "/get")
    /\ \E query \in {"ok", "error"} :
        resp' = IF query = "ok"
                THEN Response(200, ExerciseList(store))
                ELSE Response(500, [error |-> "An unexpected error occurred",
                                    details |-> <<"query", "failed">>])
    /\ UNCHANGED <<store, req, produced>>

favicon ==
    /\ Pending("GET", "/favicon.ico")
    /\ resp' = Response(204, "")
    /\ UNCHANGED <<store, req, produced>>

\* The response has been sent: the server takes the next request (app.run).
teardown ==
    /\ resp.status # 0
    /\ req' = NoRequest
    /\ resp' = NoResponse
    /\ UNCHANGED <<store, produced>>

(***************************************************************************)
(* The requests explored.                                                  *)
(***************************************************************************)
Keys == {"sport", "time", "distance", "sets", "reps_per_set", "exercise_type",
         "calories_burned"}

SupportedSports == {"running", "swimming", "cycling", "pullups", "pushups", "weights"}

\* The values a client may send under each key: numbers of either sign, text,
\* null, and for the sport an unknown name, null and a list.
RichValues ==
    [k \in Keys |->
        CASE k = "sport" -> {PyStr(s) : s \in SupportedSports}
                              \cup {PyStr("yoga"), None, EmptyList}
          [] k = "time" -> {PyInt(30), PyInt(-1), PyStr("a"), None}
          [] k = "distance" -> {PyInt(5), PyStr("far")}
          [] k = "sets" -> {PyInt(3), PyInt(-1), PyStr("a")}
          [] k = "reps_per_set" -> {PyInt(10), PyInt(-1), None}
          [] k = "exercise_type" -> {PyStr("bench"), PyInt(7)}
          [] k = "calories_burned" -> {PyInt(999)}]

\* The fewer values explored when requests follow one another.
ServiceValues ==
    [k \in Keys |->
        CASE k = "sport" -> {PyStr("running"), PyStr("pullups"), PyStr("weights"),
                             PyStr("yoga"), EmptyList}
          [] k = "time" -> {PyInt(30), PyInt(-1)}
          [] k = "distance" -> {PyInt(5)}
          [] k = "sets" -> {PyInt(3), PyStr("a")}
          [] k = "reps_per_set" -> {PyInt(10)}
          [] k = "exercise_type" -> {PyStr("bench")}
          [] k = "calories_burned" -> {PyInt(999)}]

RECURSIVE DictsOver(_, _)
\* Every dict whose keys are among keys, each key holding one of its values.
DictsOver(keys, values) ==
    IF keys = {} THEN {EmptyDict}
    ELSE LET k == CHOOSE x \in keys : TRUE
             rest == DictsOver(keys \ {k}, values)
         IN rest \cup {(k :> v) @@ d : d \in rest, v \in values[k]}

AddRequests(values) ==
    {Request("POST", "/add", JsonObject(d)) : d \in DictsOver(Keys, values)}
        \cup {Request("POST", "/add", JsonArray)}

RecordRequests == AddRequests(RichValues)

ServiceRequests ==
    AddRequests(ServiceValues)
        \cup {Request("GET", p, JsonObject(EmptyDict)) : p \in {"/", "/get", "/favicon.ico"}}

\* A request arrives; POST /add is explored while the table has room.
Receive ==
    /\ Idle
    /\ \E r \in ServiceRequests :
        /\ r.path = "/add" => Len(store) < MaxStore
        /\ req' = r
    /\ UNCHANGED <<store, resp, produced>>

(***************************************************************************)
(* Specifications.                                                         *)
(***************************************************************************)
\* The service after db.create_all() on an empty database.
Init ==
    /\ store = <<>>
    /\ produced = <<>>
    /\ req = NoRequest
    /\ resp = NoResponse

Next ==
    \/ Receive
    \/ home
    \/ add_exercise
    \/ get_exercises
    \/ favicon
    \/ teardown

Spec == Init /\ [][Next]_vars

\* One POST /add, with any of the payloads of RecordRequests, on the empty table.
InitRecord ==
    /\ store = <<>>
    /\ produced = <<>>
    /\ req \in RecordRequests
    /\ resp = NoResponse

NextRecord == add_exercise

SpecRecord == InitRecord /\ [][NextRecord]_vars

(***************************************************************************)
(* Vocabulary of the properties.                                           *)
(***************************************************************************)
\* The required-attribute table of the specification.
Required(sport) ==
    CASE sport \in {"running", "swimming", "cycling"} -> {"time", "distance"}
      [] sport \in {"pullups", "pushups"} -> {"sets", "reps_per_set"}
      [] sport = "weights" -> {"exercise_type", "sets", "reps_per_set"}

\* The calorie-rate table of the specification, in tenths of a calorie.
RateTenths(sport) ==
    CASE sport = "running" -> 100
      [] sport = "swimming" -> 120
      [] sport = "cycling" -> 80
      [] sport \in {"pullups", "pushups"} -> 5
      [] sport = "weights" -> 6

\* The name a MissingField message gives the sport.
SportTitle(sport) ==
    CASE sport = "running" -> "Running"
      [] sport = "swimming" -> "Swimming"
      [] sport = "cycling" -> "Cycling"
      [] sport = "pullups" -> "Pull-ups"
      [] sport = "pushups" -> "Push-ups"
      [] sport = "weights" -> "Weights"

\* The keys a message names: those it holds between quotes.
NamedKeys(msg) ==
    {k \in Keys : \E i \in DOMAIN msg : msg[i] \in {"'" \o k \o "'", "'" \o k \o "',"}}

\* A POST /add with a JSON object is being served or has been answered.
AddOfObject == req.path = "/add" /\ req.json.kind = "object"

Answered == resp.status # 0

payload == req.json.obj

sportSent == DictGet(payload, "sport")

Supported == sportSent.ty = "str" /\ sportSent.s \in SupportedSports

\* The required keys the payload lacks.
Missing == Required(sportSent.s) \ DOMAIN payload

\* What the recorder makes of the request.
Recorded == create_exercise(sportSent, payload)

\* The payloads that agree with the request's on the sport and its required keys.
Variants ==
    LET kept == (Required(sportSent.s) \cup {"sport"}) \cap DOMAIN payload
        base == [k \in kept |-> payload[k]]
    IN {base @@ extra :
           extra \in DictsOver(Keys \ (Required(sportSent.s) \cup {"sport"}), RichValues)}

UnsupportedSport == <<"Unsupported", "sport", "type">>

(***************************************************************************)
(* Properties.                                                             *)
(***************************************************************************)
\* C1: for every supported sport and every payload whose keys are exactly the
\* sport's required keys, create_exercise raises nothing and returns a
\* calories_burned that is a number >= 0, whatever the values under the keys.
C1_NonNegativeCalories ==
    (AddOfObject /\ Answered /\ Supported
            /\ DOMAIN payload = Required(sportSent.s) \cup {"sport"})
        => /\ Recorded.exc = ""
           /\ resp.status # 400
           /\ IsNumber(Recorded.val["calories_burned"])
           /\ Recorded.val["calories_burned"].n >= 0

\* C2: calories_burned is time * rate for running, swimming and cycling (rates
\* 10, 12, 8) and sets * reps_per_set * rate for pullups, pushups and weights
\* (rates 0.5, 0.5, 0.6); running {time 30, distance 5} gives 300, pullups
\* {sets 3, reps_per_set 10} gives 15, weights {bench, sets 4, reps_per_set 8}
\* gives 19.2; the distance and exercise_type values do not influence it.
C2_CaloriesFormula ==
    /\ (AddOfObject /\ Answered /\ Supported /\ Recorded.exc = "") =>
          LET sport == sportSent.s
              calories == Recorded.val["calories_burned"]
              timed == sport \in {"running", "swimming", "cycling"}
          IN
          /\ (timed /\ IsNumber(payload["time"])) =>
                /\ calories.n * 10 = payload["time"].n * RateTenths(sport)
                /\ calories.ty = "int"
          /\ (timed /\ payload["time"].ty = "str") =>
                /\ calories.ty = "str"
                /\ Len(calories.s) = Len(payload["time"].s) * (RateTenths(sport) \div 10)
          /\ (~timed) =>
                /\ IsNumber(payload["sets"]) /\ IsNumber(payload["reps_per_set"])
                /\ calories.n * 100 =
                      payload["sets"].n * payload["reps_per_set"].n * RateTenths(sport)
                /\ calories.ty = "float"
          /\ resp.status = 201 =>
                /\ PyEq(resp.body.calories_burned, calories)
                /\ PyEq(store[1].calories_burned, calories)
          /\ \A k \in {"distance", "exercise_type"} : \A v \in RichValues[k] :
                k \in DOMAIN payload =>
                    create_exercise(sportSent, [payload EXCEPT ![k] = v])
                        .val["calories_burned"] = calories
    /\ create_exercise(PyStr("running"), [k \in {"time", "distance"} |->
            IF k = "time" THEN PyInt(30) ELSE PyInt(5)]).val["calories_burned"] = PyInt(300)
    /\ create_exercise(PyStr("pullups"), [k \in {"sets", "reps_per_set"} |->
            IF k = "sets" THEN PyInt(3) ELSE PyInt(10)]).val["calories_burned"] = PyFloat(150)
    /\ create_exercise(PyStr("weights"), [k \in {"exercise_type", "sets", "reps_per_set"} |->
            CASE k = "exercise_type" -> PyStr("bench")
              [] k = "sets" -> PyInt(4)
              [] k = "reps_per_set" -> PyInt(8)]).val["calories_burned"] = PyFloat(192)

\* C2 witness: a weights record of 3 sets of 10 was stored with 18.0 calories.
C2_Witness ==
    /\ AddOfObject /\ resp.status = 201 /\ sportSent = PyStr("weights")
    /\ payload["sets"] = PyInt(3) /\ payload["reps_per_set"] = PyInt(10)
    /\ store[1].calories_burned = PyFloat(180)

\* C3: for every supported sport and every required key of it, a payload that
\* lacks the key, whatever other keys it has, makes create_exercise raise the
\* missing-field ValueError; no calories are computed, nothing is stored and
\* POST /add answers 400.
C3_MissingFieldRejected ==
    (AddOfObject /\ Answered /\ Supported /\ Missing # {})
        => /\ Recorded.exc = "ValueError"
           /\ Recorded.msg # UnsupportedSport
           /\ resp.status = 400
           /\ DOMAIN resp.body = {"error"}
           /\ resp.body.error = Recorded.msg
           /\ store = <<>>
           /\ produced = <<>>

\* C3 witness: weights without exercise_type, sets and reps_per_set given, got 400.
C3_Witness ==
    /\ AddOfObject /\ resp.status = 400 /\ sportSent = PyStr("weights")
    /\ Missing = {"exercise_type"}

\* C4: after a successful POST /add, a later GET /get holds a record whose
\* sport, details and calories_burned are those the recorder produced for the
\* request, the attributes being exactly the sport's required keys.
C4_RoundTrip ==
    (req.path = "/get" /\ resp.status = 200) =>
        \A i \in DOMAIN produced :
            \E j \in DOMAIN resp.body :
                /\ resp.body[j].sport = produced[i].sport
                /\ resp.body[j].details = produced[i].attributes
                /\ PyEq(resp.body[j].calories_burned, produced[i].caloriesBurned)
                /\ DOMAIN resp.body[j].details = Required(produced[i].sport)

\* C5: the details column and the 'exercise' field of the 201 response hold
\* exactly the required keys of the record's sport and no other key.
C5_ExactlyRequiredKeys ==
    (AddOfObject /\ resp.status = 201) =>
        /\ DOMAIN resp.body.exercise = Required(sportSent.s)
        /\ DOMAIN store[Len(store)].details = Required(sportSent.s)

\* C6: POST /add ends with 201 when validation passes and the record is
\* stored, with 400 exactly when the sport is unsupported or a required field
\* is missing, and with 500 only on a storage failure: no problem of the
\* client's input is answered 500.
C6_StatusByCause ==
    (req.path = "/add" /\ Answered) =>
        /\ resp.status \in {201, 400, 500}
        /\ resp.status = 201 => store # <<>>
        /\ resp.status = 400 <=>
              (req.json.kind = "object" /\ (~Supported \/ Missing # {}))
        /\ resp.status = 500 => resp.body.details = <<"commit", "failed">>

\* C7: the table changes only through a POST /add answered 201, which adds
\* exactly one row whose id no existing row has; a POST /add answered 400 or
\* 500 and every GET leave it unchanged; no row is ever modified or removed.
C7_Step ==
    /\ \/ store' = store
       \/ /\ req.method = "POST" /\ req.path = "/add"
          /\ resp.status = 0 /\ resp'.status = 201
          /\ Len(store') = Len(store) + 1
          /\ SubSeq(store', 1, Len(store)) = store
          /\ \A i \in DOMAIN store : store[i].id # store'[Len(store')].id
    /\ (resp.status = 0 /\ resp'.status = 201) => store' # store
    /\ (resp.status = 0 /\ resp'.status \in {200, 204, 400, 500}) => store' = store
    /\ req.method = "GET" => store' = store

C8_CaloriesNotFromCaller ==
    (AddOfObject /\ Answered /\ Supported) =>
        \A other \in Variants :
            LET r == create_exercise(sportSent, other) IN
            /\ r.exc = Recorded.exc
            /\ r.exc = "" =>
                  r.val["calories_burned"] = Recorded.val["calories_burned"]
            /\ resp.status = 201 =>
                  /\ store[1].calories_burned = FloatToColumn(r.val["calories_burned"])
                  /\ resp.body.calories_burned = FloatToColumn(r.val["calories_burned"])

\* C8 witness: a running record was stored for a payload that carried its own
\* 'calories_burned' of 999, with 300 calories.
C8_Witness ==
    /\ AddOfObject /\ resp.status = 201 /\ sportSent = PyStr("running")
    /\ "calories_burned" \in DOMAIN payload
    /\ payload["calories_burned"] = PyInt(999)
    /\ store[1].calories_burned = PyFloat(3000)

\* C9: whenever the sport is not one of the six keys of the rate table (an
\* unknown name, or no 'sport' at all), create_exercise raises 'Unsupported
\* sport type' whatever else the payload holds, never a missing-field error.
C9_UnsupportedFirst ==
    (AddOfObject /\ Answered /\ ~Supported) =>
        /\ Recorded.exc = "ValueError"
        /\ Recorded.msg = UnsupportedSport
        /\ resp.status = 400
        /\ resp.body.error = UnsupportedSport

\* C10: the MissingField error names the sport and exactly the keys that are
\* absent from the payload.
C10_NamesAbsentKeys ==
    (AddOfObject /\ Answered /\ Supported /\ Missing # {}) =>
        /\ resp.status = 400
        /\ resp.body.error[1] = SportTitle(sportSent.s)
        /\ NamedKeys(resp.body.error) = Missing

\* C10 (amended): the MissingField error names the sport and all the required
\* keys of the sport, the absent ones among them, whichever of them is absent.
C10_NamesRequiredKeys ==
    (AddOfObject /\ Answered /\ Supported /\ Missing # {}) =>
        /\ resp.status = 400
        /\ resp.body.error = Recorded.msg
        /\ resp.body.error[1] = SportTitle(sportSent.s)
        /\ NamedKeys(resp.body.error) = Required(sportSent.s)
        /\ Missing \subseteq NamedKeys(resp.body.error)

\* C10 witness: pushups without sets, reps_per_set given, was answered 400.
C10_Witness ==
    /\ AddOfObject /\ resp.status = 400 /\ sportSent = PyStr("pushups")
    /\ Missing = {"sets"}
    /\ "reps_per_set" \in DOMAIN payload

====
